---------------------------- MODULE Spec2Model ----------------------------
(***************************************************************************)
(* Model of seismiqb's SeismicGeometry (seismic_geometry.py) and           *)
(* SeismicCropBatch (seismic_crop_batch.py).                               *)
(*                                                                         *)
(* Strings are sequences of one-character strings, so that concatenation,  *)
(* the substring test `AFFIX in path` and the slice `path[:-SIZE_SALT]`    *)
(* are computed the way Python computes them.  Python containers that are  *)
(* indexed from 0 are sequences here; PyGet does the index arithmetic,     *)
(* negative indices included.                                              *)
(***************************************************************************)
EXTENDS Integers, Sequences, FiniteSets, TLC

VARIABLES
    \* ---- salt / unsalt -------------------------------------------------
    path,        \* argument of salt
    salted,      \* value returned by salt(path), NoKey before the call
    unsalted,    \* value returned by unsalt(salted), NoKey before the call
    \* ---- volumes, geometries and one crop batch ------------------------
    disk,        \* base key -> content of the .sgy file of that cube
    geometries,  \* base key -> SeismicGeometry after load, or None
    points,      \* argument of crop: sequence of [ix, ratio, pos]
    shape,       \* argument of crop: <<shape_i, shape_x, shape_h>>
    pc,          \* where the pipeline over the batch stands
    indices,     \* index of the batch made by crop (salted keys, in order)
    slices,      \* component `slices` of the batch made by crop
    handles,     \* every file handle opened so far: [path, closes]
    task_args,   \* what _sgy_init / _init_component returned, per task
    sgy_results, \* per task of _load_cubes_sgy: Pending, its return value or its exception
    sgy_raised,  \* what the _load_cubes_sgy call raised to its caller (None: nothing)
    data_sgy,    \* dst component written by _load_cubes_sgy
    h5_results,  \* per task of _load_cubes_h5py: Pending, its return value or its exception
    data_h5,     \* dst component written by _load_cubes_h5py
    \* ---- assemble_predict ----------------------------------------------
    grid_info,   \* grid_array, crop_shape, predict_shape (the slice is the whole volume)
    src_crops,   \* the crops accumulated so far (argument src)
    mode,        \* argument mode
    assembled,   \* dst component of assemble_predict, None while unset
    asm_outcome  \* outcome of the last assemble_predict call

saltVars  == <<path, salted, unsalted>>
batchVars == <<disk, geometries, points, shape, pc, indices, slices, handles,
               task_args, sgy_results, sgy_raised, data_sgy, h5_results, data_h5>>
asmVars   == <<grid_info, src_crops, mode, assembled, asm_outcome>>
vars      == <<saltVars, batchVars, asmVars>>

-----------------------------------------------------------------------------
(* Python values *)

None       == [kind |-> "None"]
Pending    == [kind |-> "pending"]
Exc(name)  == [kind |-> "exception", name |-> name]
Array(v)   == [kind |-> "ndarray", val |-> v]
Handle(h)  == [kind |-> "segyfile", id |-> h]
Self       == [kind |-> "self"]
NoKey      == <<"<unset>">>

IsExc(r)   == r.kind = "exception"

\* seq[k] of Python: valid for -len <= k < len, negative k counts from the end
ValidIdx(n, k) == -n <= k /\ k < n
PyGet(seq, k)  == seq[(IF k < 0 THEN Len(seq) + k ELSE k) + 1]

\* np.arange(a, b)
arange(a, b) == [i \in 1..(b - a) |-> a + i - 1]

Min(S) == CHOOSE m \in S : \A x \in S : m <= x

\* sorted(list(S)) for a set of integers
RECURSIVE sorted(_)
sorted(S) == IF S = {} THEN <<>> ELSE <<Min(S)>> \o sorted(S \ {Min(S)})

\* the values of a sequence
Range(s) == {s[i] : i \in DOMAIN s}

-----------------------------------------------------------------------------
(* salt / unsalt *)

AFFIX        == <<"_", "_", "_">>
SIZE_POSTFIX == 7
SIZE_SALT    == Len(AFFIX) + SIZE_POSTFIX

\* `AFFIX in path`
Contains(p, sub) ==
    \E i \in 1..(Len(p) - Len(sub) + 1) : SubSeq(p, i, i + Len(sub) - 1) = sub

\* a sample of string.ascii_uppercase + string.digits
SaltChars == {"A", "7"}
\* every postfix random.choice can produce over SaltChars
Postfixes == [1..SIZE_POSTFIX -> SaltChars]

\* salt(path), with the SIZE_POSTFIX random characters given
salt(p, postfix) == p \o AFFIX \o postfix

\* path[:-n] for n > 0
DropLast(p, n) == IF Len(p) > n THEN SubSeq(p, 1, Len(p) - n) ELSE <<>>

unsalt_short(p) == IF Contains(p, AFFIX) THEN DropLast(p, SIZE_POSTFIX) ELSE p

unsalt(p) == IF Contains(p, AFFIX) THEN DropLast(p, SIZE_SALT) ELSE p

\* bounds of the keys salt is tried on
MaxKeyLen == 3
KeyChars  == {"c", "_"}
Keys      == UNION {[1..n -> KeyChars] : n \in 0..MaxKeyLen}


-----------------------------------------------------------------------------
(* SeismicGeometry.load *)

\* self.il_xl_trace[(iline_, xline_)] = i, with the key's fields exchanged
il_xl_trace_swapped(map, header_, i) ==
    LET key == <<header_.xline, header_.iline>>
    IN  [p \in DOMAIN map \cup {key} |-> IF p = key THEN i ELSE map[p]]

\* self.il_xl_trace[(iline_, xline_)] = i
il_xl_trace_set(map, header_, i) ==
    LET key == <<header_.iline, header_.xline>>
    IN  [p \in DOMAIN map \cup {key} |-> IF p = key THEN i ELSE map[p]]

\* the loop of load over range(len(segyfile.header)), after its first n rounds
RECURSIVE load_loop(_, _)
load_loop(segyfile, n) ==
    IF n = 0
    THEN [il_xl_trace |-> [p \in {} |-> 0], ilines |-> {}, xlines |-> {}]
    ELSE LET prev    == load_loop(segyfile, n - 1)
             header_ == segyfile[n]
         IN  [il_xl_trace |-> il_xl_trace_set(prev.il_xl_trace, header_, n - 1),
              ilines      |-> prev.ilines \cup {header_.iline},
              xlines      |-> prev.xlines \cup {header_.xline}]

\* SeismicGeometry().load(path): the attributes the crop batch reads
load(segyfile) ==
    LET depth  == Len(segyfile[1].trace)
        pass   == load_loop(segyfile, Len(segyfile))
        ilines == sorted(pass.ilines)
        xlines == sorted(pass.xlines)
    IN  [kind          |-> "SeismicGeometry",
         il_xl_trace   |-> pass.il_xl_trace,
         ilines        |-> ilines,
         xlines        |-> xlines,
         depth         |-> depth,
         ilines_offset |-> Min(pass.ilines),
         xlines_offset |-> Min(pass.xlines),
         ilines_len    |-> Len(ilines),
         xlines_len    |-> Len(xlines),
         cube_shape    |-> <<Len(ilines), Len(xlines), depth>>]

\* The dense store that represents the same data as an indexed .sgy file:
\* cube[i, j, :] is the trace the index maps (ilines[i], xlines[j]) to, and
\* zeros where the index has no such pair.
DenseCube(geom, segyfile) ==
    [i \in 1..geom.ilines_len |->
        [j \in 1..geom.xlines_len |->
            IF <<geom.ilines[i], geom.xlines[j]>> \in DOMAIN geom.il_xl_trace
            THEN segyfile[geom.il_xl_trace[<<geom.ilines[i], geom.xlines[j]>>] + 1].trace
            ELSE [h \in 1..geom.depth |-> 0]]]

-----------------------------------------------------------------------------
(* SeismicCropBatch: slices and the two extraction paths *)

\* .astype(int) of a quotient: truncation toward zero
TruncDiv(a, b) == IF a >= 0 THEN a \div b ELSE -((-a) \div b)

\* ratios are given in RatioDen-ths
RatioDen == 10

\* _make_slice with the ratio taken of the whole cube_shape
make_slice_cube(point, shp, geom) ==
    LET slice_point ==
            IF point.ratio
            THEN [a \in 1..3 |-> TruncDiv(point.pos[a] * geom.cube_shape[a], RatioDen)]
            ELSE point.pos
    IN  [a \in 1..3 |-> arange(slice_point[a], slice_point[a] + shp[a])]

\* _make_slice(point, shape); geom is self.get(ix, 'geometries')
make_slice(point, shp, geom) ==
    LET slice_point ==
            IF point.ratio
            THEN [a \in 1..3 |->
                     TruncDiv(point.pos[a] * (geom.cube_shape[a] - shp[a]), RatioDen)]
            ELSE point.pos
    IN  [a \in 1..3 |-> arange(slice_point[a], slice_point[a] + shp[a])]

\* one column of _load_cubes_sgy, the trace looked up under (xline, iline)
sgy_column_swapped(geom, segyfile, iline_, xline_, hs_) ==
    LET il_ == PyGet(geom.ilines, iline_)
        xl_ == PyGet(geom.xlines, xline_)
    IN  IF <<xl_, il_>> \in DOMAIN geom.il_xl_trace
        THEN [h \in 1..Len(hs_) |->
                 PyGet(segyfile[geom.il_xl_trace[<<xl_, il_>>] + 1].trace, hs_[h])]
        ELSE [h \in 1..Len(hs_) |-> 0]

\* one column of _load_cubes_sgy: crop[i, j, :] after the try block
sgy_column(geom, segyfile, iline_, xline_, hs_) ==
    LET il_ == PyGet(geom.ilines, iline_)
        xl_ == PyGet(geom.xlines, xline_)
    IN  IF <<il_, xl_>> \in DOMAIN geom.il_xl_trace
        THEN [h \in 1..Len(hs_) |->
                 PyGet(segyfile[geom.il_xl_trace[<<il_, xl_>>] + 1].trace, hs_[h])]
        ELSE [h \in 1..Len(hs_) |-> 0]

\* whether the loops of _load_cubes_sgy raise IndexError: geom.ilines[iline_]
\* or geom.xlines[xline_] out of the list, or, for a pair the index has,
\* segyfile.trace[tr_][hs_] out of the trace.  KeyError alone is caught.
sgy_raises(geom, slice_) ==
    \E i \in Range(slice_[1]), j \in Range(slice_[2]) :
        IF ~ValidIdx(Len(geom.ilines), i) \/ ~ValidIdx(Len(geom.xlines), j)
        THEN TRUE
        ELSE /\ <<PyGet(geom.ilines, i), PyGet(geom.xlines, j)>> \in DOMAIN geom.il_xl_trace
             /\ \E h \in Range(slice_[3]) : ~ValidIdx(geom.depth, h)

\* the body of _load_cubes_sgy up to `pos = ...`: the crop, or the exception
load_cubes_sgy(geom, segyfile, slice_) ==
    IF sgy_raises(geom, slice_)
    THEN Exc("IndexError")
    ELSE Array([i \in 1..Len(slice_[1]) |->
                  [j \in 1..Len(slice_[2]) |->
                      sgy_column(geom, segyfile, slice_[1][i], slice_[2][j], slice_[3])]])

\* whether the loop of _load_cubes_h5py raises: h5py_cube[iline_, :, :] out of
\* the dataset, or slide[xlines_, :][:, hs_] out of the slide
h5py_raises(cube_shape, slice_) ==
    \E i \in Range(slice_[1]) :
        \/ ~ValidIdx(cube_shape[1], i)
        \/ \E j \in Range(slice_[2]) : ~ValidIdx(cube_shape[2], j)
        \/ \E h \in Range(slice_[3]) : ~ValidIdx(cube_shape[3], h)

\* the body of _load_cubes_h5py up to `pos = ...`: the crop, or the exception
load_cubes_h5py(h5py_cube, cube_shape, slice_) ==
    IF h5py_raises(cube_shape, slice_)
    THEN Exc("IndexError")
    ELSE Array([i \in 1..Len(slice_[1]) |->
                  LET slide == PyGet(h5py_cube, slice_[1][i])
                  IN  [j \in 1..Len(slice_[2]) |->
                          [h \in 1..Len(slice_[3]) |->
                              PyGet(PyGet(slide, slice_[2][j]), slice_[3][h])]]])

-----------------------------------------------------------------------------
(* SeismicCropBatch: index, positions and file handles *)

\* self.index.get_fullpath(key) of the batch of cubes
FullPath(key) == <<"/">> \o key

\* the key of the cube stored at a path
PathKey(p) == SubSeq(p, 2, Len(p))

\* batchflow's index.get_pos(ix): the position the index's dictionary keeps for ix
index_pos(idx, ix) == CHOOSE k \in DOMAIN idx : idx[k] = ix /\ \A m \in DOMAIN idx : idx[m] = ix => m <= k

\* get_pos(None, component, ix) for a component that is not keyed by cube
get_pos(idx, ix) == index_pos(idx, ix)

\* self.get(ix, 'geometries'): get_pos gives unsalt(ix) for this component
get_geometry(geoms, ix) == geoms[unsalt(ix)]

\* the loop of _sgy_init with a file opened for every item
RECURSIVE sgy_open_each(_, _)
sgy_open_each(idx, n) ==
    IF n = 0
    THEN [segyfiles |-> [k \in {} |-> 0], opened |-> <<>>]
    ELSE LET prev == sgy_open_each(idx, n - 1)
             ix   == idx[n]
             key  == unsalt(ix)
             opened == Append(prev.opened, [path |-> FullPath(unsalt(ix)), closes |-> 0])
         IN  [segyfiles |-> [k \in DOMAIN prev.segyfiles \cup {key} |->
                                IF k = key THEN Len(opened) ELSE prev.segyfiles[k]],
              opened    |-> opened]

\* the loop of _sgy_init over self.indices, after its first n rounds: the
\* dictionary segyfiles (key -> handle) and the handles opened, in order.
\* path_data is the path crop stored for ix: the full path of unsalt(ix).
RECURSIVE sgy_open(_, _)
sgy_open(idx, n) ==
    IF n = 0
    THEN [segyfiles |-> [k \in {} |-> 0], opened |-> <<>>]
    ELSE LET prev == sgy_open(idx, n - 1)
             ix   == idx[n]
             key  == unsalt(ix)
             path_data == FullPath(unsalt(ix))
         IN  IF key \in DOMAIN prev.segyfiles
             THEN prev
             ELSE LET opened == Append(prev.opened, [path |-> path_data, closes |-> 0])
                  IN  [segyfiles |-> [k \in DOMAIN prev.segyfiles \cup {key} |->
                                         IF k = key THEN Len(opened) ELSE prev.segyfiles[k]],
                       opened    |-> opened]

\* the loop of _sgy_post over the first n task results: segyfile.close() on
\* each; an exception object among them has no close, which raises
RECURSIVE sgy_close(_, _, _)
sgy_close(hs, results, n) ==
    IF n = 0
    THEN [handles |-> hs, raised |-> None]
    ELSE LET prev == sgy_close(hs, results, n - 1)
             r    == results[n]
         IN  IF prev.raised # None
             THEN prev
             ELSE IF IsExc(r)
                  THEN [handles |-> prev.handles, raised |-> Exc("AttributeError")]
                  ELSE [handles |-> [prev.handles EXCEPT ![r.id].closes = @ + 1],
                        raised  |-> None]

-----------------------------------------------------------------------------
(* The pipeline over one batch: load the geometries, crop, load_cubes *)

\* geom.load(path) for one cube of the batch
Load(b) ==
    /\ pc = "cubes"
    /\ geometries[b] = None
    /\ geometries' = [geometries EXCEPT ![b] = load(disk[b])]
    /\ UNCHANGED <<disk, points, shape, pc, indices, slices, handles, task_args,
                   sgy_results, sgy_raised, data_sgy, h5_results, data_h5>>
    /\ UNCHANGED <<saltVars, asmVars>>

\* crop(points, shape): the new batch, its index salted with the postfixes drawn
Crop(postfixes) ==
    /\ pc = "cubes"
    /\ \A b \in DOMAIN geometries : geometries[b] # None
    /\ indices' = [k \in DOMAIN points |-> salt(points[k].ix, postfixes[k])]
    /\ slices'  = [k \in DOMAIN points |->
                      make_slice(points[k], shape, get_geometry(geometries, points[k].ix))]
    /\ pc' = "idle"
    /\ UNCHANGED <<disk, geometries, points, shape, handles, task_args,
                   sgy_results, sgy_raised, data_sgy, h5_results, data_h5>>
    /\ UNCHANGED <<saltVars, asmVars>>

\* load_cubes(fmt='sgy'): _sgy_init creates dst and opens the files
SgyInit ==
    /\ pc = "idle"
    /\ sgy_results = <<>>
    /\ LET init == sgy_open(indices, Len(indices))
       IN  /\ handles'   = handles \o init.opened
           /\ task_args' = [k \in DOMAIN indices |->
                               [ix |-> indices[k],
                                segyfile |-> Len(handles) + init.segyfiles[unsalt(indices[k])]]]
    /\ data_sgy'    = [k \in DOMAIN indices |-> None]
    /\ sgy_results' = [k \in DOMAIN indices |-> Pending]
    /\ pc' = "sgy"
    /\ UNCHANGED <<disk, geometries, points, shape, indices, slices,
                   sgy_raised, h5_results, data_h5>>
    /\ UNCHANGED <<saltVars, asmVars>>

\* one thread of _load_cubes_sgy, for the k-th item
SgyTask(k) ==
    /\ pc = "sgy"
    /\ k \in DOMAIN sgy_results
    /\ sgy_results[k] = Pending
    /\ LET ix       == task_args[k].ix
           segyfile == task_args[k].segyfile
           geom     == get_geometry(geometries, ix)
           slice_   == slices[get_pos(indices, ix)]
           crop     == load_cubes_sgy(geom, disk[PathKey(handles[segyfile].path)], slice_)
       IN  IF IsExc(crop)
           THEN /\ sgy_results' = [sgy_results EXCEPT ![k] = crop]
                /\ UNCHANGED data_sgy
           ELSE /\ data_sgy' = [data_sgy EXCEPT ![get_pos(indices, ix)] = crop]
                /\ sgy_results' = [sgy_results EXCEPT ![k] = Handle(segyfile)]
    /\ UNCHANGED <<disk, geometries, points, shape, pc, indices, slices, handles,
                   task_args, sgy_raised, h5_results, data_h5>>
    /\ UNCHANGED <<saltVars, asmVars>>

\* every thread has ended: _sgy_post(all results)
SgyPost ==
    /\ pc = "sgy"
    /\ \A k \in DOMAIN sgy_results : sgy_results[k] # Pending
    /\ LET post == sgy_close(handles, sgy_results, Len(sgy_results))
       IN  /\ handles'    = post.handles
           /\ sgy_raised' = post.raised
    /\ pc' = "idle"
    /\ UNCHANGED <<disk, geometries, points, shape, indices, slices, task_args,
                   sgy_results, data_sgy, h5_results, data_h5>>
    /\ UNCHANGED <<saltVars, asmVars>>

\* load_cubes(fmt='h5py'): _init_component creates dst
H5Init ==
    /\ pc = "idle"
    /\ h5_results = <<>>
    /\ data_h5'    = [k \in DOMAIN indices |-> None]
    /\ h5_results' = [k \in DOMAIN indices |-> Pending]
    /\ pc' = "h5py"
    /\ UNCHANGED <<disk, geometries, points, shape, indices, slices, handles,
                   task_args, sgy_results, sgy_raised, data_sgy>>
    /\ UNCHANGED <<saltVars, asmVars>>

\* one thread of _load_cubes_h5py, for the k-th item
H5Task(k) ==
    /\ pc = "h5py"
    /\ k \in DOMAIN h5_results
    /\ h5_results[k] = Pending
    /\ LET ix        == indices[k]
           geom      == get_geometry(geometries, ix)
           h5py_cube == DenseCube(geom, disk[unsalt(ix)])
           slice_    == slices[get_pos(indices, ix)]
           crop      == load_cubes_h5py(h5py_cube, geom.cube_shape, slice_)
       IN  IF IsExc(crop)
           THEN /\ h5_results' = [h5_results EXCEPT ![k] = crop]
                /\ UNCHANGED data_h5
           ELSE /\ data_h5' = [data_h5 EXCEPT ![get_pos(indices, ix)] = crop]
                /\ h5_results' = [h5_results EXCEPT ![k] = Self]
    /\ UNCHANGED <<disk, geometries, points, shape, pc, indices, slices, handles,
                   task_args, sgy_results, sgy_raised, data_sgy>>
    /\ UNCHANGED <<saltVars, asmVars>>

\* every thread of _load_cubes_h5py has ended: the call is over
H5Done ==
    /\ pc = "h5py"
    /\ \A k \in DOMAIN h5_results : h5_results[k] # Pending
    /\ pc' = "idle"
    /\ UNCHANGED <<disk, geometries, points, shape, indices, slices, handles,
                   task_args, sgy_results, sgy_raised, data_sgy, h5_results, data_h5>>
    /\ UNCHANGED <<saltVars, asmVars>>

-----------------------------------------------------------------------------
(* Inputs *)

\* the .sgy files tried: headers in any order, pairs repeated or missing
MaxTraces == 3
Depth     == 2
ILINES    == {1, 2}
XLINES    == {10, 20}

\* trace t (from 1) of cube number `code`: samples that name the cube, the
\* trace and the height, none of them 0
MakeVolume(code, headers) ==
    [t \in DOMAIN headers |->
        [iline |-> headers[t][1], xline |-> headers[t][2],
         trace |-> [h \in 1..Depth |-> code * 100 + t * 10 + h]]]

Volumes(code) ==
    {MakeVolume(code, hs) : hs \in UNION {[1..n -> ILINES \X XLINES] : n \in 1..MaxTraces}}

KeyP == <<"p">>
KeyQ == <<"q">>

\* inlines {1,2} x crosslines {10,20} with the trace of (2,20) missing
VolumeP == MakeVolume(1, <<<<1, 10>>, <<1, 20>>, <<2, 10>>>>)
\* one crossline, the pair (1,10) carried by two traces
VolumeQ == MakeVolume(2, <<<<1, 10>>, <<2, 10>>, <<1, 10>>>>)

\* the postfixes salt draws in the batch specifications
SaltSample == {<<"A", "A", "A", "A", "A", "A", "A">>, <<"7", "A", "7", "A", "7", "A", "7">>}

NumCrops == 2

SaltIdle ==
    /\ path = <<>>
    /\ salted = NoKey
    /\ unsalted = NoKey

AsmIdle ==
    /\ grid_info = None
    /\ src_crops = <<>>
    /\ mode = "avg"
    /\ assembled = None
    /\ asm_outcome = [result |-> None, n_src |-> 0]

BatchIdle ==
    /\ disk = [b \in {} |-> <<>>]
    /\ geometries = [b \in {} |-> None]
    /\ points = <<>>
    /\ shape = <<1, 1, 1>>
    /\ pc = "none"
    /\ indices = <<>>
    /\ slices = <<>>
    /\ handles = <<>>
    /\ task_args = <<>>
    /\ sgy_results = <<>>
    /\ sgy_raised = None
    /\ data_sgy = <<>>
    /\ h5_results = <<>>
    /\ data_h5 = <<>>

\* a batch of cubes before anything ran on it
BatchStart ==
    /\ geometries = [b \in DOMAIN disk |-> None]
    /\ pc = "cubes"
    /\ indices = <<>>
    /\ slices = <<>>
    /\ handles = <<>>
    /\ task_args = <<>>
    /\ sgy_results = <<>>
    /\ sgy_raised = None
    /\ data_sgy = <<>>
    /\ h5_results = <<>>
    /\ data_h5 = <<>>

BatchNext ==
    \/ \E b \in DOMAIN disk : Load(b)
    \/ \E postfixes \in [DOMAIN points -> SaltSample] : Crop(postfixes)
    \/ SgyInit
    \/ \E k \in DOMAIN indices : SgyTask(k)
    \/ SgyPost
    \/ H5Init
    \/ \E k \in DOMAIN indices : H5Task(k)
    \/ H5Done

(* One crop of any window, in or out of the cube, from any small cube *)
WindowOrigins == {-1, 0, 1}
WindowShapes  == {<<1, 1, 1>>, <<1, 1, 2>>, <<1, 2, 1>>, <<2, 1, 2>>, <<2, 2, 2>>}

InitExtract ==
    /\ disk \in [{KeyP} -> Volumes(1)]
    /\ points \in [{1} -> [ix : {KeyP}, ratio : {FALSE},
                           pos : WindowOrigins \X WindowOrigins \X WindowOrigins]]
    /\ shape \in WindowShapes
    /\ BatchStart
    /\ SaltIdle
    /\ AsmIdle

SpecExtract == InitExtract /\ [][BatchNext]_vars

(* NumCrops crops from two cubes, some of them out of the cube *)
BatchOrigins == {<<0, 0, 0>>, <<1, 0, 0>>}
BatchShapes  == {<<1, 1, 1>>, <<2, 1, 2>>}

InitBatch ==
    /\ disk = (KeyP :> VolumeP) @@ (KeyQ :> VolumeQ)
    /\ points \in [1..NumCrops -> [ix : {KeyP, KeyQ}, ratio : {FALSE}, pos : BatchOrigins]]
    /\ shape \in BatchShapes
    /\ BatchStart
    /\ SaltIdle
    /\ AsmIdle

SpecBatch == InitBatch /\ [][BatchNext]_vars

(* Two crops of one cube, their origins given as ratios *)
\* four inlines, two crosslines
VolumeR == MakeVolume(3, <<<<1, 10>>, <<2, 10>>, <<3, 10>>, <<4, 20>>>>)

\* the ratios k / RatioDen of [0, 1]; every one of them on the inline axis
RatioOrigins == (0..RatioDen) \X {0, RatioDen} \X {0, 5, RatioDen}
RatioCorner  == <<RatioDen, RatioDen, RatioDen>>
\* the last shape is longer than the cube
RatioShapes  == {<<1, 1, 1>>, <<2, 1, 1>>, <<3, 2, 2>>, <<5, 1, 1>>}

\* the second point repeats the first or is the far corner
InitRatio ==
    /\ disk = (KeyP :> VolumeR)
    /\ \E p \in RatioOrigins, q \in RatioOrigins \cup {RatioCorner} :
          /\ q \in {p, RatioCorner}
          /\ points = <<[ix |-> KeyP, ratio |-> TRUE, pos |-> p],
                        [ix |-> KeyP, ratio |-> TRUE, pos |-> q]>>
    /\ shape \in RatioShapes
    /\ BatchStart
    /\ SaltIdle
    /\ AsmIdle

SpecRatio == InitRatio /\ [][BatchNext]_vars

(* salt and unsalt on any key *)
Salt(postfix) ==
    /\ salted = NoKey
    /\ salted' = salt(path, postfix)
    /\ UNCHANGED <<path, unsalted>>
    /\ UNCHANGED <<batchVars, asmVars>>

Unsalt ==
    /\ salted # NoKey
    /\ unsalted = NoKey
    /\ unsalted' = unsalt(salted)
    /\ UNCHANGED <<path, salted>>
    /\ UNCHANGED <<batchVars, asmVars>>

InitSalt ==
    /\ path \in Keys
    /\ salted = NoKey
    /\ unsalted = NoKey
    /\ BatchIdle
    /\ AsmIdle

SaltNext ==
    \/ \E postfix \in Postfixes : Salt(postfix)
    \/ Unsalt

SpecSalt == InitSalt /\ [][SaltNext]_vars

-----------------------------------------------------------------------------
(* assemble_predict *)

RECURSIVE Sum(_)
Sum(array) == IF array = <<>> THEN 0 ELSE array[1] + Sum(Tail(array))

Max(S) == CHOOSE m \in S : \A x \in S : x <= m

\* utils.count_nonzeros(array): the number of entries that are not 0
RECURSIVE count_nonzeros(_)
count_nonzeros(array) ==
    IF array = <<>> THEN 0
    ELSE (IF array[1] # 0 THEN 1 ELSE 0) + count_nonzeros(Tail(array))

\* a float result, kept as the quotient num / den
Float(n, d) == [kind |-> "float", num |-> n, den |-> d]

\* mode == 'avg': np.sum(array) / count_nonzeros(array), compiled by njit with
\* its default error model, under which a zero divisor raises ZeroDivisionError
callable_avg(array) ==
    IF count_nonzeros(array) = 0
    THEN Exc("ZeroDivisionError")
    ELSE Float(Sum(array), count_nonzeros(array))

\* mode == 'max': np.max(array)
callable_max(array) == Float(Max(Range(array)), 1)

\* a jit-compiled callable handed in as mode: here, np.min
callable_jit(array) == Float(Min(Range(array)), 1)

\* the values of mode tried; "njit_min" stands for a CPUDispatcher object,
\* "median" and "AVG" for strings that name no reducer
Modes == {"avg", "max", "njit_min", "median", "AVG"}
IsCPUDispatcher(m) == m = "njit_min"

\* whether the if / elif chain of assemble_predict binds _callable
callable_bound(m) == m = "avg" \/ m = "max" \/ IsCPUDispatcher(m)

\* _callable(array) for a mode that binds it
callable(m, array) ==
    IF m = "avg" THEN callable_avg(array)
    ELSE IF m = "max" THEN callable_max(array)
    ELSE callable_jit(array)

\* the values the crops hold at voxel v (from 0 on each axis), cell by cell
RECURSIVE contributions(_, _, _, _, _)
contributions(crops, grid_array, crop_shape, v, n) ==
    IF n = 0 THEN <<>>
    ELSE LET prev == contributions(crops, grid_array, crop_shape, v, n - 1)
             o    == grid_array[n]
         IN  IF \A a \in 1..3 : 0 <= v[a] - o[a] /\ v[a] - o[a] < crop_shape[a]
             THEN Append(prev, crops[n].val[v[1] - o[1] + 1][v[2] - o[2] + 1][v[3] - o[3] + 1])
             ELSE prev

Cells(crops, grid_array) ==
    IF Len(crops) < Len(grid_array) THEN Len(crops) ELSE Len(grid_array)

\* utils.aggregate: every voxel of predict_shape reduced over the crops that
\* cover it; a voxel no crop covers stays 0.  An exception of the reducer at
\* any voxel is the exception of the call.
aggregate(crops, grid_array, crop_shape, predict_shape, m) ==
    LET value(v) ==
            LET c == contributions(crops, grid_array, crop_shape, v, Cells(crops, grid_array))
            IN  IF c = <<>> THEN Float(0, 1) ELSE callable(m, c)
        voxels == (0..(predict_shape[1] - 1)) \X (0..(predict_shape[2] - 1))
                     \X (0..(predict_shape[3] - 1))
    IN  IF \E v \in voxels : IsExc(value(v))
        THEN value(CHOOSE v \in voxels : IsExc(value(v)))
        ELSE Array([i \in 1..predict_shape[1] |->
                      [j \in 1..predict_shape[2] |->
                          [h \in 1..predict_shape[3] |-> value(<<i - 1, j - 1, h - 1>>)]]])

\* assembled[grid_info['slice']]: per axis the range [lo, hi)
apply_slice(arr, slice_) ==
    Array([i \in 1..(slice_[1][2] - slice_[1][1]) |->
             [j \in 1..(slice_[2][2] - slice_[2][1]) |->
                 [h \in 1..(slice_[3][2] - slice_[3][1]) |->
                     arr.val[slice_[1][1] + i][slice_[2][1] + j][slice_[3][1] + h]]]])

\* the guard of assemble_predict, passing whenever there are not too many crops
grid_incomplete_more(src, grid) == Len(src) > Len(grid.grid_array)

\* `len(src) != len(grid_info['grid_array'])`
grid_incomplete(src, grid) == Len(src) # Len(grid.grid_array)

\* assemble_predict(src, dst, grid_info, mode): what the call gives back to its
\* caller (self, or the exception raised) and the value of dst after it
assemble_predict(src, dst, grid, m) ==
    IF grid_incomplete(src, grid)
    THEN [outcome |-> Self, dst |-> dst]
    ELSE IF ~callable_bound(m)
    THEN [outcome |-> Exc("UnboundLocalError"), dst |-> dst]
    ELSE LET result == aggregate(src, grid.grid_array, grid.crop_shape,
                                 grid.predict_shape, m)
         IN  IF IsExc(result)
             THEN [outcome |-> result, dst |-> dst]
             ELSE [outcome |-> Self, dst |-> apply_slice(result, grid.slice)]

\* one more predicted crop has arrived
Arrive(crop) ==
    /\ Len(src_crops) < Len(grid_info.grid_array)
    /\ src_crops' = Append(src_crops, Array(crop))
    /\ UNCHANGED <<grid_info, mode, assembled, asm_outcome>>
    /\ UNCHANGED <<saltVars, batchVars>>

\* the pipeline calls assemble_predict on the crops it holds
AssemblePredict ==
    /\ LET r == assemble_predict(src_crops, assembled, grid_info, mode)
       IN  /\ assembled' = r.dst
           /\ asm_outcome' = [result |-> r.outcome, n_src |-> Len(src_crops)]
    /\ UNCHANGED <<grid_info, src_crops, mode>>
    /\ UNCHANGED <<saltVars, batchVars>>

\* grids of NumCells crops of shape (2,1,1) along the inline axis of a volume
\* of three inlines, overlapping or not; the slice cuts the padding inline off
NumCells    == 2
GridOrigins == {<<0, 0, 0>>, <<1, 0, 0>>}
CropValues  == {0, 1, 3}
GridCrops   == [{1, 2} -> [{1} -> [{1} -> CropValues]]]
Grids ==
    [grid_array : [1..NumCells -> GridOrigins], crop_shape : {<<2, 1, 1>>},
     predict_shape : {<<3, 1, 1>>}, slice : {<<<<0, 3>>, <<0, 1>>, <<0, 1>>>>,
                                             <<<<0, 2>>, <<0, 1>>, <<0, 1>>>>}]

NotCalled == [result |-> None, n_src |-> 0]

InitAssemble ==
    /\ grid_info \in Grids
    /\ mode \in Modes
    /\ src_crops = <<>>
    /\ assembled = None
    /\ asm_outcome = NotCalled
    /\ SaltIdle
    /\ BatchIdle

AssembleNext ==
    \/ \E crop \in GridCrops : Arrive(crop)
    \/ AssemblePredict

SpecAssemble == InitAssemble /\ [][AssembleNext]_vars

-----------------------------------------------------------------------------
(* Properties *)

\* the window of a slice lies inside the cube on every axis
InBounds(geom, slice_) ==
    \A a \in 1..3 : \A x \in Range(slice_[a]) : 0 <= x /\ x < geom.cube_shape[a]

\* the geometry and the slice of the k-th item of the crop batch
GeomOf(k)  == geometries[points[k].ix]
CellCount  == Len(grid_info.grid_array)
Called     == asm_outcome.result.kind # "None"

\* C1: for every base key that does not contain the separator and every
\* postfix salt may draw, unsalt(salt(k)) is k, and it is salt(k) without its
\* last len(separator) + 7 characters.
Thm_C1_UnsaltSaltIsIdentity ==
    (unsalted # NoKey /\ ~Contains(path, AFFIX)) =>
        /\ unsalted = path
        /\ Len(salted) - Len(unsalted) = Len(AFFIX) + 7
        /\ unsalted = SubSeq(salted, 1, Len(salted) - (Len(AFFIX) + 7))

Wit_C1_KeyUnsalted ==
    /\ unsalted # NoKey
    /\ ~Contains(path, AFFIX)
    /\ Len(path) = MaxKeyLen
    /\ "_" \in Range(path)

\* C2: after _sgy_init there is exactly one open handle per distinct base
\* volume of the batch (as many handles as distinct unsalt(ix), one per path),
\* and every task is given its own index and the handle of its own base volume.
Thm_C2_OneHandlePerVolume ==
    sgy_results # <<>> =>
        /\ Len(handles) = Cardinality({unsalt(indices[k]) : k \in DOMAIN indices})
        /\ Len(handles) = Cardinality({points[k].ix : k \in DOMAIN points})
        /\ \A h1, h2 \in DOMAIN handles : handles[h1].path = handles[h2].path => h1 = h2
        /\ \A k \in DOMAIN task_args :
              /\ task_args[k].ix = indices[k]
              /\ handles[task_args[k].segyfile].path = FullPath(points[k].ix)

Wit_C2_SharedHandle ==
    /\ sgy_results # <<>>
    /\ \E k1, k2 \in DOMAIN indices :
          /\ k1 # k2
          /\ indices[k1] # indices[k2]
          /\ task_args[k1].segyfile = task_args[k2].segyfile

\* the salted keys of the batch are pairwise distinct
IndexUnique == \A k1, k2 \in DOMAIN indices : indices[k1] = indices[k2] => k1 = k2

\* C3: every handle _sgy_init opened is closed exactly once, and only after
\* every task has ended, on every way out of the call (handles shared by
\* several crops and failed tasks included).  Stated for the batches whose
\* salted keys are pairwise distinct.
Cex_C3_ClosedExactlyOnce ==
    IndexUnique =>
        /\ (\E h \in DOMAIN handles : handles[h].closes > 0) =>
               \A k \in DOMAIN sgy_results : sgy_results[k] # Pending
        /\ (pc = "idle" /\ sgy_results # <<>>) =>
               \A h \in DOMAIN handles : handles[h].closes = 1

\* C4: a crop of an in-bounds window read from the .sgy file is all zero in
\* every column whose (inline, crossline) pair the index does not hold, with
\* no error raised, and holds in every other column the requested heights of
\* the trace the index maps the pair to.
Thm_C4_SgyCrop ==
    \A k \in DOMAIN sgy_results :
        (sgy_results[k] # Pending /\ InBounds(GeomOf(k), slices[k])) =>
            /\ ~IsExc(sgy_results[k])
            /\ data_sgy[k].kind = "ndarray"
            /\ \A i \in 1..shape[1], j \in 1..shape[2] :
                  LET geom   == GeomOf(k)
                      pair   == <<geom.ilines[slices[k][1][i] + 1],
                                  geom.xlines[slices[k][2][j] + 1]>>
                      column == data_sgy[k].val[i][j]
                  IN  IF pair \in DOMAIN geom.il_xl_trace
                      THEN \A h \in 1..shape[3] :
                              column[h] = disk[points[k].ix][geom.il_xl_trace[pair] + 1]
                                              .trace[slices[k][3][h] + 1]
                      ELSE \A h \in 1..shape[3] : column[h] = 0

Wit_C4_MissingAndPresentColumn ==
    \E k \in DOMAIN sgy_results :
        /\ sgy_results[k] # Pending
        /\ InBounds(GeomOf(k), slices[k])
        /\ shape = <<2, 2, 2>>
        /\ Cardinality(DOMAIN GeomOf(k).il_xl_trace) = 3
        /\ data_sgy[k].kind = "ndarray"

\* C5: a crop whose window leaves the cube on some axis (origin below 0, or
\* origin + shape beyond the cube's shape) ends as an error of its task, on
\* both extraction paths, and no array is stored for it.
Cex_C5_WindowOutOfRange ==
    \A k \in DOMAIN indices :
        ~InBounds(GeomOf(k), slices[k]) =>
            /\ (k \in DOMAIN sgy_results /\ sgy_results[k] # Pending) =>
                   (IsExc(sgy_results[k]) /\ data_sgy[k] = None)
            /\ (k \in DOMAIN h5_results /\ h5_results[k] # Pending) =>
                   (IsExc(h5_results[k]) /\ data_h5[k] = None)

Cex_C7_MeanOfNonzero ==
    (mode = "avg" /\ Called /\ asm_outcome.n_src = CellCount) =>
        /\ asm_outcome.result = Self
        /\ assembled.kind = "ndarray"
        /\ \A i \in 1..Len(assembled.val) :
              LET c == contributions(src_crops, grid_info.grid_array, grid_info.crop_shape,
                                     <<grid_info.slice[1][1] + i - 1, 0, 0>>, CellCount)
                  x == assembled.val[i][1][1]
              IN  IF count_nonzeros(c) = 0
                  THEN x.num = 0
                  ELSE x.num * count_nonzeros(c) = Sum(c) * x.den

\* C8: a mode that is neither 'avg', 'max' nor a jit-compiled callable makes
\* every call of assemble_predict raise an error, however many crops have
\* arrived, and the destination is not written.
Cex_C8_UnknownReducerRaises ==
    (Called /\ ~callable_bound(mode)) =>
        (IsExc(asm_outcome.result) /\ assembled = None)

\* C9: for every window the crop read through the .sgy path and the crop read
\* through the dense store of the same data are the same array.
Cex_C9_PathsAgree ==
    \A k \in DOMAIN indices :
        (/\ k \in DOMAIN sgy_results /\ sgy_results[k] # Pending
         /\ k \in DOMAIN h5_results /\ h5_results[k] # Pending) =>
            data_sgy[k] = data_h5[k]

\* C10: after load, every (inline, crossline) pair some trace header carries
\* is a key of il_xl_trace, and its value is the offset of a trace whose
\* header carries that pair.
Thm_C10_TraceOfHeaderMatches ==
    \A b \in DOMAIN disk :
        geometries[b] # None =>
            \A t \in DOMAIN disk[b] :
                LET pair == <<disk[b][t].iline, disk[b][t].xline>>
                    map  == geometries[b].il_xl_trace
                IN  /\ pair \in DOMAIN map
                    /\ map[pair] \in 0..(Len(disk[b]) - 1)
                    /\ disk[b][map[pair] + 1].iline = pair[1]
                    /\ disk[b][map[pair] + 1].xline = pair[2]

Wit_C10_RepeatedPairOutOfOrder ==
    \E b \in DOMAIN disk :
        /\ geometries[b] # None
        /\ \E t1, t2, t3 \in DOMAIN disk[b] :
              /\ t1 < t2 /\ t2 < t3
              /\ disk[b][t1].iline = disk[b][t3].iline
              /\ disk[b][t1].xline = disk[b][t3].xline
              /\ disk[b][t2].iline < disk[b][t1].iline

\* C11: whatever the order in which the threads of a batch end, the k-th task
\* writes the k-th position of dst and no other: a position holds the crop of
\* its own slice once its task has returned, and None until then or when its
\* task raised.  The component is then the same for every interleaving.
Cex_C11_OwnPositionOnly ==
    /\ \A k \in DOMAIN sgy_results :
          IF sgy_results[k].kind = "segyfile"
          THEN data_sgy[k] = load_cubes_sgy(GeomOf(k), disk[points[k].ix], slices[k])
          ELSE data_sgy[k] = None
    /\ \A k \in DOMAIN h5_results :
          IF h5_results[k] = Self
          THEN data_h5[k] = load_cubes_h5py(DenseCube(GeomOf(k), disk[points[k].ix]),
                                            GeomOf(k).cube_shape, slices[k])
          ELSE data_h5[k] = None

\* C12: after crop the salted keys of the new index are pairwise distinct,
\* so every point, and with it every slice, has an index entry of its own:
\* the position of the k-th key is k, also for points of one base volume.
Cex_C12_SaltedKeysDistinct ==
    pc # "cubes" =>
        /\ Len(indices) = Len(points)
        /\ Len(slices) = Len(points)
        /\ IndexUnique
        /\ \A k \in DOMAIN indices : get_pos(indices, indices[k]) = k

\* whether the crop shape is within the cube of the k-th point on every axis
ShapeFits(k) == \A a \in 1..3 : shape[a] <= GeomOf(k).cube_shape[a]

\* C13: for an origin given as ratios in [0, 1] and a shape within the cube,
\* the origin of every axis is the integer part of ratio * (cube_shape - shape);
\* the window is `shape` consecutive indices from it, all of them inside
\* [0, cube_shape), and equal points get equal windows.
Thm_C13_RatioWindowInsideCube ==
    pc # "cubes" =>
        \A k \in DOMAIN slices :
            (points[k].ratio /\ ShapeFits(k)) =>
                /\ \A a \in 1..3 :
                      LET cs   == GeomOf(k).cube_shape[a]
                          prod == points[k].pos[a] * (cs - shape[a])
                          o    == slices[k][a][1]
                      IN  /\ Len(slices[k][a]) = shape[a]
                          /\ \A i \in 1..shape[a] : slices[k][a][i] = o + i - 1
                          /\ o * RatioDen <= prod
                          /\ prod < (o + 1) * RatioDen
                          /\ 0 <= o
                          /\ o + shape[a] <= cs
                /\ \A k2 \in DOMAIN slices :
                      points[k2] = points[k] => slices[k2] = slices[k]

\* two equal ratio points whose inline origin is a truncated quotient
\* strictly inside the range left by the shape
Wit_C13_TruncatedInnerOrigin ==
    /\ pc # "cubes"
    /\ \E k, k2 \in DOMAIN slices :
          /\ k # k2
          /\ points[k] = points[k2]
          /\ points[k].ratio
          /\ ShapeFits(k)
          /\ (points[k].pos[1] * (GeomOf(k).cube_shape[1] - shape[1])) % RatioDen # 0
          /\ 0 < slices[k][1][1]
          /\ slices[k][1][1] < GeomOf(k).cube_shape[1] - shape[1]

=============================================================================
